---- MODULE Spec2Model ----
(***************************************************************************)
(* Model of the concurrent stages of the pipeline package:                 *)
(*   - fixedPool   (src/pool.go)  : n FIFO replicas on shared feeds        *)
(*   - dynamicPool (src/pool.go)  : one goroutine per item, token pool     *)
(*   - broadcast   (src/bcast.go) : every item to n FIFOs, private feeds   *)
(* Goroutines are interleaved one statement (channel operation, call) at   *)
(* a time.  A Go select with several ready cases picks any of them.        *)
(***************************************************************************)
EXTENDS Integers, Sequences, FiniteSets, Bags, TLC

\* ------------------------------------------------------------- bounds
NumItems   == 4   \* items the producer may queue for a dynamic pool
FifoItems  == 2   \* items the producer may queue for a fixed pool / broadcast
MaxTokens  == 2   \* the max argument of DynamicPool
NumWorkers == 2   \* num of FixedPool / len(tasks) of Broadcast
MaxArg     == 3   \* constructor arguments range over -MaxArg..MaxArg

Items    == 1..NumItems
Workers  == 0..(NumWorkers - 1)
Kinds    == {"dynamic", "fixed", "broadcast"}
Outcomes == {"err", "nil", "out"}
Positions == {1}   \* values of sp.Position()
Tasks    == {"t1", "t2"}   \* transforms handed to the constructors
ArgRange == (0 - MaxArg)..MaxArg
TaskLists == UNION {[1..n -> Tasks] : n \in 0..MaxArg}

VARIABLES
    kind,        \* which stage this Run belongs to
    position,    \* sp.Position()
    args,        \* the arguments the stage's constructor is called with
    stage,       \* the Stage value the constructor returned
    ctxDone,     \* ctx.Done() is closed
    cancelSeen,  \* dynamicPool.Run has taken a case <-ctx.Done() of its selects
    sent,        \* number of items the producer has queued on sp.Input()
    nextIn,      \* next item to be received from sp.Input()
    inClosed,    \* sp.Input() is closed
    pc,          \* control point of Run
    idx,         \* the loop variable i of Run's current for loop
    dataIn,      \* item Run holds (dataIn / data), NoData when none
    tokenPool,   \* number of tokens buffered in p.tokenPool
    upc,         \* dynamic pool: control point of the goroutine of each item
    wg,          \* sync.WaitGroup counter
    rpc,         \* control point of each FIFO replica goroutine
    rdata,       \* data each FIFO replica holds
    inCh,        \* broadcast: state of each private feed
    fifoData,    \* broadcast: fifoData of the current fan-out step
    heap,        \* number of objects allocated by Clone
    delivered,   \* per replica, the data it received, in order
    outBag,      \* bag of the values written to sp.Output()
    errBag,      \* bag of the errors appended to sp.Error()
    marked       \* bag of the items on whose data MarkAsProcessed was called

vars == <<kind, position, args, stage,
          ctxDone, cancelSeen, sent, nextIn, inClosed, pc, idx,
          dataIn, tokenPool, upc, wg, rpc, rdata, inCh, fifoData, heap,
          delivered, outBag, errBag, marked>>

envVars  == <<kind, position, args, stage, cancelSeen, sent>>
dynVars  == <<tokenPool, upc>>
fifoVars == <<wg, rpc, rdata, inCh, fifoData, heap, delivered>>

\* ------------------------------------------------------------- data
\* A Data object: the item it carries and its identity (ref 0 is the object
\* the producer sent, ref > 0 an object allocated by Clone).
NoData == [item |-> 0, ref |-> 0]

MkData(k) == [item |-> k, ref |-> 0]

\* data.Clone(): a new object carrying the same item.
Clone(d, h) == [item |-> d.item, ref |-> h + 1]

\* The task of the doubling scenario: the value produced for an input.
TaskOut(d) == 2 * d.item

\* fmt.Errorf("pipeline stage %d: %v", sp.Position(), err): the task's error
\* wrapped with the stage position
TaskError(d) == [failed |-> d.item]

StageError(pos, err) == [stage |-> pos, cause |-> err]

BagAdd(b, e) == b (+) SetToBag({e})

\* ------------------------------------------------------------- feeds
\* The producer queues items 1..sent on the input feed and may close it at any
\* time; a closed feed still delivers the items it holds.  A receiver finds
\* the feed empty once it has taken them all.
ItemLimit == IF kind = "dynamic" THEN NumItems ELSE FifoItems

\* case dataIn, ok := <-sp.Input() is ready with ok = true: an item is queued
InputReady == nextIn <= sent

\* ... and with ok = false: the feed is closed and holds no item
InputClosed == inClosed /\ ~(nextIn <= sent)

\* ------------------------------------------------------------- constructors
\* The nil Stage, and the value of the variable stage before construction.
\* A Stage is a record of the fields of the three structs; a buffered channel
\* of tokens is the number of tokens it holds and its capacity.
NoChan == [len |-> 0, cap |-> 0]

NilStage == [type |-> "nil", task |-> "", fifos |-> <<>>, tokenPool |-> NoChan]

Unbuilt == [type |-> "unbuilt", task |-> "", fifos |-> <<>>, tokenPool |-> NoChan]

\* FIFO(task): the sequential stage wrapping the task
FIFO(task) ==
    [type |-> "fifo", task |-> task, fifos |-> <<>>, tokenPool |-> NoChan]

\* pool.go:15-26; fifos[i] = FIFO(task) for i = 0 .. num - 1
FixedPool_ZeroAllowed(task, num) ==
    IF num < 0
    THEN NilStage
    ELSE [type |-> "fixedPool", task |-> "",
          fifos |-> [i \in 0..(num - 1) |-> FIFO(task)], tokenPool |-> NoChan]

FixedPool(task, num) ==
    IF num <= 0
    THEN NilStage
    ELSE [type |-> "fixedPool", task |-> "",
          fifos |-> [i \in 0..(num - 1) |-> FIFO(task)], tokenPool |-> NoChan]

\* pool.go:58-60, for i := 0; i < max; i++ { tokenPool <- struct{}{} }
RECURSIVE FillTokens(_, _, _)
FillTokens(ch, i, max) ==
    IF i < max
    THEN FillTokens([ch EXCEPT !.len = @ + 1], i + 1, max)
    ELSE ch

\* pool.go:52-63; tokenPool := make(chan struct{}, max), then filled
DynamicPool(task, max) ==
    IF max <= 0
    THEN NilStage
    ELSE [type |-> "dynamicPool", task |-> task, fifos |-> <<>>,
          tokenPool |-> FillTokens([len |-> 0, cap |-> max], 0, max)]

\* bcast.go:14-25; fifos[i] = FIFO(t) for i, t := range tasks
Broadcast(tasks) ==
    IF Len(tasks) = 0
    THEN NilStage
    ELSE [type |-> "broadcast", task |-> "",
          fifos |-> [i \in 0..(Len(tasks) - 1) |-> FIFO(tasks[i + 1])],
          tokenPool |-> NoChan]

\* the constructor call for a stage of kind k
NewStage(k, a) ==
    CASE k = "fixed"     -> FixedPool(a.task, a.num)
      [] k = "dynamic"   -> DynamicPool(a.task, a.max)
      [] k = "broadcast" -> Broadcast(a.tasks)

\* the arguments of the stage whose Run is modelled
RunArgs ==
    [task |-> "t1", num |-> NumWorkers, max |-> MaxTokens,
     tasks |-> [i \in 1..NumWorkers |-> "t1"]]

\* ------------------------------------------------------------- Init
Init ==
    /\ kind \in Kinds
    /\ position \in Positions
    /\ args = RunArgs
    /\ stage = NewStage(kind, args)
    /\ ctxDone = FALSE
    /\ cancelSeen = FALSE
    /\ sent \in 0..ItemLimit
    /\ nextIn = 1
    /\ inClosed = FALSE
    /\ pc = IF kind = "dynamic" THEN "select" ELSE "spawn"
    /\ idx = 0
    /\ dataIn = NoData
    /\ tokenPool = DynamicPool(args.task, MaxTokens).tokenPool.len
    /\ upc = [k \in Items |-> "none"]
    /\ wg = 0
    /\ rpc = [w \in Workers |-> "none"]
    /\ rdata = [w \in Workers |-> NoData]
    /\ inCh = [w \in Workers |-> "nil"]
    /\ fifoData = NoData
    /\ heap = 0
    /\ delivered = [w \in Workers |-> <<>>]
    /\ outBag = EmptyBag
    /\ errBag = EmptyBag
    /\ marked = EmptyBag

\* ------------------------------------------------------------- environment
\* The context is cancelled.
Cancel ==
    /\ ~ctxDone
    /\ ctxDone' = TRUE
    /\ UNCHANGED <<kind, position, args, stage,
                   cancelSeen, sent, nextIn, inClosed, pc, idx,
                   dataIn, tokenPool, upc, wg, rpc, rdata, inCh, fifoData, heap,
                   delivered, outBag, errBag, marked>>

\* The producer closes the input feed (after any number of items).
CloseInput ==
    /\ ~inClosed
    /\ inClosed' = TRUE
    /\ UNCHANGED <<kind, position, args, stage,
                   cancelSeen, ctxDone, sent, nextIn, pc, idx,
                   dataIn, tokenPool, upc, wg, rpc, rdata, inCh, fifoData, heap,
                   delivered, outBag, errBag, marked>>

\* ------------------------------------------------------------- dynamicPool.Run
\* pool.go:69-72, case dataIn, ok := <-sp.Input() with ok
DynRecv ==
    /\ kind = "dynamic" /\ pc = "select"
    /\ InputReady
    /\ dataIn' = MkData(nextIn)
    /\ nextIn' = nextIn + 1
    /\ pc' = "acquire"
    /\ UNCHANGED <<envVars, ctxDone, inClosed, idx, dynVars, fifoVars, outBag,
                   errBag, marked>>

\* pool.go:72-75, the input feed is closed: break loop
DynInputClosed ==
    /\ kind = "dynamic" /\ pc = "select"
    /\ InputClosed
    /\ pc' = "drain"
    /\ idx' = 0
    /\ UNCHANGED <<envVars, ctxDone, nextIn, inClosed, dataIn, dynVars, fifoVars,
                   outBag, errBag, marked>>

\* pool.go:70-71, case <-ctx.Done(): break loop
DynSelectCancel ==
    /\ kind = "dynamic" /\ pc = "select"
    /\ ctxDone
    /\ cancelSeen' = TRUE
    /\ pc' = "drain"
    /\ idx' = 0
    /\ UNCHANGED <<kind, position, args, stage,
                   sent, ctxDone, nextIn, inClosed, dataIn,
                   dynVars, fifoVars, outBag, errBag, marked>>

\* pool.go:79, case token = <-p.tokenPool
DynAcquire_NoTake ==
    /\ kind = "dynamic" /\ pc = "acquire"
    /\ pc' = "launch"
    /\ UNCHANGED <<envVars, ctxDone, nextIn, inClosed, idx, dataIn, dynVars,
                   fifoVars, outBag, errBag, marked>>

DynAcquire ==
    /\ kind = "dynamic" /\ pc = "acquire"
    /\ tokenPool > 0
    /\ tokenPool' = tokenPool - 1
    /\ pc' = "launch"
    /\ UNCHANGED <<envVars, ctxDone, nextIn, inClosed, idx, dataIn, upc,
                   fifoVars, outBag, errBag, marked>>

\* pool.go:80-81, case <-ctx.Done(): break loop (dataIn is abandoned)
DynAcquireCancel_PlainBreak ==
    /\ kind = "dynamic" /\ pc = "acquire"
    /\ ctxDone
    /\ cancelSeen' = TRUE
    /\ pc' = "launch"
    /\ UNCHANGED <<kind, position, args, stage,
                   sent, ctxDone, nextIn, inClosed, idx, dataIn,
                   dynVars, fifoVars, outBag, errBag, marked>>

DynAcquireCancel_RunUnit ==
    /\ kind = "dynamic" /\ pc = "acquire"
    /\ ctxDone
    /\ cancelSeen' = TRUE
    /\ upc' = [upc EXCEPT ![dataIn.item] = "process"]
    /\ pc' = "drain"
    /\ idx' = 0
    /\ UNCHANGED <<kind, position, args, stage,
                   sent, ctxDone, nextIn, inClosed, dataIn,
                   tokenPool, fifoVars, outBag, errBag, marked>>

DynAcquireCancel ==
    /\ kind = "dynamic" /\ pc = "acquire"
    /\ ctxDone
    /\ cancelSeen' = TRUE
    /\ pc' = "drain"
    /\ idx' = 0
    /\ UNCHANGED <<kind, position, args, stage,
                   sent, ctxDone, nextIn, inClosed, dataIn,
                   dynVars, fifoVars, outBag, errBag, marked>>

\* pool.go:84,104, go func(dataIn, token){...}(dataIn, token)
DynLaunch ==
    /\ kind = "dynamic" /\ pc = "launch"
    /\ upc' = [upc EXCEPT ![dataIn.item] = "process"]
    /\ dataIn' = NoData
    /\ pc' = "select"
    /\ UNCHANGED <<envVars, ctxDone, nextIn, inClosed, idx, tokenPool, fifoVars,
                   outBag, errBag, marked>>

\* pool.go:86-87,94, dataOut, err := p.task.Process(ctx, dataIn)
UnitProcess_ReleaseFirst(k) ==
    /\ kind = "dynamic" /\ upc[k] = "process"
    /\ tokenPool < MaxTokens
    /\ tokenPool' = tokenPool + 1
    /\ \E r \in Outcomes :
         upc' = [upc EXCEPT ![k] = CASE r = "err" -> "report"
                                     [] r = "nil" -> "mark"
                                     [] r = "out" -> "send"]
    /\ UNCHANGED <<envVars, ctxDone, nextIn, inClosed, pc, idx, dataIn, fifoVars,
                   outBag, errBag, marked>>

UnitProcess(k) ==
    /\ kind = "dynamic" /\ upc[k] = "process"
    /\ \E r \in Outcomes :
         upc' = [upc EXCEPT ![k] = CASE r = "err" -> "report"
                                     [] r = "nil" -> "mark"
                                     [] r = "out" -> "send"]
    /\ UNCHANGED <<envVars, ctxDone, nextIn, inClosed, pc, idx, dataIn, tokenPool,
                   fifoVars, outBag, errBag, marked>>

\* pool.go:88-89, sp.Error().Append(...); return
UnitReportError_NoRelease(k) ==
    /\ kind = "dynamic" /\ upc[k] = "report"
    /\ errBag' =
         BagAdd(errBag, StageError(position, TaskError(MkData(k))))
    /\ upc' = [upc EXCEPT ![k] = "exit"]
    /\ UNCHANGED <<envVars, ctxDone, nextIn, inClosed, pc, idx, dataIn, tokenPool,
                   fifoVars, outBag, marked>>

UnitReportError_AbortLoop(k) ==
    /\ kind = "dynamic" /\ upc[k] = "report"
    /\ errBag' =
         BagAdd(errBag, StageError(position, TaskError(MkData(k))))
    /\ upc' = [upc EXCEPT ![k] = "release"]
    /\ pc' = "drain"
    /\ idx' = 0
    /\ UNCHANGED <<envVars, ctxDone, nextIn, inClosed, dataIn, tokenPool,
                   fifoVars, outBag, marked>>

UnitReportError(k) ==
    /\ kind = "dynamic" /\ upc[k] = "report"
    /\ errBag' =
         BagAdd(errBag, StageError(position, TaskError(MkData(k))))
    /\ upc' = [upc EXCEPT ![k] = "release"]
    /\ UNCHANGED <<envVars, ctxDone, nextIn, inClosed, pc, idx, dataIn, tokenPool,
                   fifoVars, outBag, marked>>

\* pool.go:94-97, dataIn.MarkAsProcessed(); return
UnitMarkProcessed(k) ==
    /\ kind = "dynamic" /\ upc[k] = "mark"
    /\ marked' = BagAdd(marked, k)
    /\ upc' = [upc EXCEPT ![k] = "release"]
    /\ UNCHANGED <<envVars, ctxDone, nextIn, inClosed, pc, idx, dataIn, tokenPool,
                   fifoVars, outBag, errBag>>

\* pool.go:100-101, case sp.Output() <- dataOut (the consumer takes it)
UnitSendOutput(k) ==
    /\ kind = "dynamic" /\ upc[k] = "send"
    /\ outBag' = BagAdd(outBag, TaskOut(MkData(k)))
    /\ upc' = [upc EXCEPT ![k] = "release"]
    /\ UNCHANGED <<envVars, ctxDone, nextIn, inClosed, pc, idx, dataIn, tokenPool,
                   fifoVars, errBag, marked>>

\* pool.go:102, case <-ctx.Done(): the output is dropped
UnitDropOutput_NoCancelCase(k) ==
    /\ FALSE
    /\ UNCHANGED vars

UnitDropOutput_Always(k) ==
    /\ kind = "dynamic" /\ upc[k] = "send"
    /\ upc' = [upc EXCEPT ![k] = "release"]
    /\ UNCHANGED <<envVars, ctxDone, nextIn, inClosed, pc, idx, dataIn, tokenPool,
                   fifoVars, outBag, errBag, marked>>

UnitDropOutput(k) ==
    /\ kind = "dynamic" /\ upc[k] = "send"
    /\ ctxDone
    /\ upc' = [upc EXCEPT ![k] = "release"]
    /\ UNCHANGED <<envVars, ctxDone, nextIn, inClosed, pc, idx, dataIn, tokenPool,
                   fifoVars, outBag, errBag, marked>>

\* pool.go:85, defer func() { p.tokenPool <- token }()
\* The send blocks while the channel holds cap(p.tokenPool) tokens.
UnitRelease(k) ==
    /\ kind = "dynamic" /\ upc[k] = "release"
    /\ tokenPool < MaxTokens
    /\ tokenPool' = tokenPool + 1
    /\ upc' = [upc EXCEPT ![k] = "exit"]
    /\ UNCHANGED <<envVars, ctxDone, nextIn, inClosed, pc, idx, dataIn, fifoVars,
                   outBag, errBag, marked>>

\* pool.go:109-111, for i := 0; i < cap(p.tokenPool); i++ { <-p.tokenPool }
DynDrain_NoWait ==
    /\ kind = "dynamic" /\ pc = "drain"
    /\ idx < MaxTokens
    /\ idx' = idx + 1
    /\ UNCHANGED <<envVars, ctxDone, nextIn, inClosed, pc, dataIn, dynVars,
                   fifoVars, outBag, errBag, marked>>

DynDrain ==
    /\ kind = "dynamic" /\ pc = "drain"
    /\ idx < MaxTokens
    /\ tokenPool > 0
    /\ tokenPool' = tokenPool - 1
    /\ idx' = idx + 1
    /\ UNCHANGED <<envVars, ctxDone, nextIn, inClosed, pc, dataIn, upc, fifoVars,
                   outBag, errBag, marked>>

\* pool.go:109,112, the drain loop ends and Run returns
DynReturn_OneShort ==
    /\ kind = "dynamic" /\ pc = "drain"
    /\ ~(idx < MaxTokens - 1)
    /\ pc' = "done"
    /\ UNCHANGED <<envVars, ctxDone, nextIn, inClosed, idx, dataIn, dynVars,
                   fifoVars, outBag, errBag, marked>>

DynReturn ==
    /\ kind = "dynamic" /\ pc = "drain"
    /\ ~(idx < MaxTokens)
    /\ pc' = "done"
    /\ UNCHANGED <<envVars, ctxDone, nextIn, inClosed, idx, dataIn, dynVars,
                   fifoVars, outBag, errBag, marked>>

DynNext ==
    \/ DynRecv
    \/ DynInputClosed
    \/ DynAcquire
    \/ DynLaunch
    \/ \E k \in Items : UnitProcess(k)
    \/ \E k \in Items : UnitReportError(k)
    \/ \E k \in Items : UnitMarkProcessed(k)
    \/ \E k \in Items : UnitSendOutput(k)
    \/ \E k \in Items : UnitRelease(k)
    \/ DynDrain
    \/ DynReturn

DynCancelNext ==
    \/ DynSelectCancel
    \/ DynAcquireCancel
    \/ \E k \in Items : UnitDropOutput(k)

\* ------------------------------------------------------------- FIFO replica
\* The sequential stage FIFO(task) is not part of the sources; it is modelled
\* from its contract: one item at a time, forward / mark processed / report,
\* return when the input feed closes or the context is cancelled.

\* The replica's input feed is closed.
FifoFeedClosed(w) ==
    IF kind = "broadcast" THEN inCh[w] = "closed" ELSE InputClosed

\* case dataIn, ok := <-sp.Input() on the shared input feed (fixed pool)
FifoRecv(w) ==
    /\ kind = "fixed" /\ rpc[w] = "select"
    /\ InputReady
    /\ rdata' = [rdata EXCEPT ![w] = MkData(nextIn)]
    /\ delivered' = [delivered EXCEPT ![w] = Append(@, MkData(nextIn))]
    /\ nextIn' = nextIn + 1
    /\ rpc' = [rpc EXCEPT ![w] = "process"]
    /\ UNCHANGED <<envVars, ctxDone, inClosed, pc, idx, dataIn, dynVars, wg, inCh,
                   fifoData, heap, outBag, errBag, marked>>

\* the input feed is closed: the replica returns
FifoInputClosed(w) ==
    /\ rpc[w] = "select"
    /\ FifoFeedClosed(w)
    /\ rpc' = [rpc EXCEPT ![w] = "returned"]
    /\ UNCHANGED <<envVars, ctxDone, nextIn, inClosed, pc, idx, dataIn, dynVars,
                   wg, rdata, inCh, fifoData, heap, delivered, outBag, errBag,
                   marked>>

\* case <-ctx.Done() while waiting for input: the replica returns
FifoCancel(w) ==
    /\ rpc[w] = "select"
    /\ ctxDone
    /\ rpc' = [rpc EXCEPT ![w] = "returned"]
    /\ UNCHANGED <<envVars, ctxDone, nextIn, inClosed, pc, idx, dataIn, dynVars,
                   wg, rdata, inCh, fifoData, heap, delivered, outBag, errBag,
                   marked>>

\* the transform is invoked: a failure is reported to the error sink, an item
\* for which nothing is produced is marked processed (the replica then goes on
\* with the next item), a produced data is to be forwarded
FifoProcess(w) ==
    /\ rpc[w] = "process"
    /\ \E r \in Outcomes :
         CASE r = "err" ->
                /\ errBag' =
                     BagAdd(errBag, StageError(position, TaskError(rdata[w])))
                /\ rpc' = [rpc EXCEPT ![w] = "select"]
                /\ rdata' = [rdata EXCEPT ![w] = NoData]
                /\ UNCHANGED marked
           [] r = "nil" ->
                /\ marked' = BagAdd(marked, rdata[w].item)
                /\ rpc' = [rpc EXCEPT ![w] = "select"]
                /\ rdata' = [rdata EXCEPT ![w] = NoData]
                /\ UNCHANGED errBag
           [] r = "out" ->
                /\ rpc' = [rpc EXCEPT ![w] = "send"]
                /\ UNCHANGED <<rdata, errBag, marked>>
    /\ UNCHANGED <<envVars, ctxDone, nextIn, inClosed, pc, idx, dataIn, dynVars,
                   wg, inCh, fifoData, heap, delivered, outBag>>

\* the produced data is written to the shared output feed
FifoSendOutput(w) ==
    /\ rpc[w] = "send"
    /\ outBag' = BagAdd(outBag, TaskOut(rdata[w]))
    /\ rpc' = [rpc EXCEPT ![w] = "select"]
    /\ rdata' = [rdata EXCEPT ![w] = NoData]
    /\ UNCHANGED <<envVars, ctxDone, nextIn, inClosed, pc, idx, dataIn, dynVars,
                   wg, inCh, fifoData, heap, delivered, errBag, marked>>

\* case <-ctx.Done() while writing the output: the replica returns
FifoDropOutput(w) ==
    /\ rpc[w] = "send"
    /\ ctxDone
    /\ rpc' = [rpc EXCEPT ![w] = "returned"]
    /\ rdata' = [rdata EXCEPT ![w] = NoData]
    /\ UNCHANGED <<envVars, ctxDone, nextIn, inClosed, pc, idx, dataIn, dynVars,
                   wg, inCh, fifoData, heap, delivered, outBag, errBag, marked>>

\* pool.go:37 / bcast.go:45, wg.Done() after the replica's Run has returned
WgDone_Missing(w) ==
    /\ rpc[w] = "returned"
    /\ rpc' = [rpc EXCEPT ![w] = "exited"]
    /\ UNCHANGED <<envVars, ctxDone, nextIn, inClosed, pc, idx, dataIn, dynVars,
                   wg, rdata, inCh, fifoData, heap, delivered, outBag, errBag,
                   marked>>

WgDone(w) ==
    /\ rpc[w] = "returned"
    /\ wg' = wg - 1
    /\ rpc' = [rpc EXCEPT ![w] = "exited"]
    /\ UNCHANGED <<envVars, ctxDone, nextIn, inClosed, pc, idx, dataIn, dynVars,
                   rdata, inCh, fifoData, heap, delivered, outBag, errBag, marked>>

\* wg.Wait() (pool.go:41, bcast.go:81): blocks until the counter is zero
WgWait_NoBlock ==
    /\ kind \in {"fixed", "broadcast"} /\ pc = "wait"
    /\ pc' = "done"
    /\ UNCHANGED <<envVars, ctxDone, nextIn, inClosed, idx, dataIn, dynVars,
                   fifoVars, outBag, errBag, marked>>

WgWait ==
    /\ kind \in {"fixed", "broadcast"} /\ pc = "wait"
    /\ wg = 0
    /\ pc' = "done"
    /\ UNCHANGED <<envVars, ctxDone, nextIn, inClosed, idx, dataIn, dynVars,
                   fifoVars, outBag, errBag, marked>>

FifoNext ==
    \/ \E w \in Workers : FifoInputClosed(w)
    \/ \E w \in Workers : FifoProcess(w)
    \/ \E w \in Workers : FifoSendOutput(w)
    \/ \E w \in Workers : WgDone(w)
    \/ WgWait

FifoCancelNext ==
    \/ \E w \in Workers : FifoCancel(w)
    \/ \E w \in Workers : FifoDropOutput(w)

\* ------------------------------------------------------------- fixedPool.Run
\* pool.go:33-39, wg.Add(1); go func(idx){ p.fifos[idx].Run(...); wg.Done() }(i)
FixedSpawn ==
    /\ kind = "fixed" /\ pc = "spawn"
    /\ idx < NumWorkers
    /\ wg' = wg + 1
    /\ rpc' = [rpc EXCEPT ![idx] = "select"]
    /\ idx' = idx + 1
    /\ UNCHANGED <<envVars, ctxDone, nextIn, inClosed, pc, dataIn, dynVars, rdata,
                   inCh, fifoData, heap, delivered, outBag, errBag, marked>>

\* pool.go:33,41, the spawn loop ends; Run goes to wg.Wait()
FixedSpawned_NoWait ==
    /\ kind = "fixed" /\ pc = "spawn"
    /\ ~(idx < NumWorkers)
    /\ pc' = "done"
    /\ UNCHANGED <<envVars, ctxDone, nextIn, inClosed, idx, dataIn, dynVars,
                   fifoVars, outBag, errBag, marked>>

FixedSpawned ==
    /\ kind = "fixed" /\ pc = "spawn"
    /\ ~(idx < NumWorkers)
    /\ pc' = "wait"
    /\ UNCHANGED <<envVars, ctxDone, nextIn, inClosed, idx, dataIn, dynVars,
                   fifoVars, outBag, errBag, marked>>

FixedNext ==
    \/ FixedSpawn
    \/ FixedSpawned
    \/ \E w \in Workers : FifoRecv(w)

\* ------------------------------------------------------------- broadcast.Run
\* bcast.go:34-47, wg.Add(1); inCh[i] = make(chan Data); go func(fifoIndex){...}(i)
BcastSpawn ==
    /\ kind = "broadcast" /\ pc = "spawn"
    /\ idx < NumWorkers
    /\ wg' = wg + 1
    /\ inCh' = [inCh EXCEPT ![idx] = "open"]
    /\ rpc' = [rpc EXCEPT ![idx] = "select"]
    /\ idx' = idx + 1
    /\ UNCHANGED <<envVars, ctxDone, nextIn, inClosed, pc, dataIn, dynVars, rdata,
                   fifoData, heap, delivered, outBag, errBag, marked>>

\* bcast.go:34,48, the spawn loop ends; Run enters the fan-out loop
BcastSpawned ==
    /\ kind = "broadcast" /\ pc = "spawn"
    /\ ~(idx < NumWorkers)
    /\ pc' = "select"
    /\ UNCHANGED <<envVars, ctxDone, nextIn, inClosed, idx, dataIn, dynVars,
                   fifoVars, outBag, errBag, marked>>

\* bcast.go:54,59, case data, ok := <-sp.Input() with ok; i := len(b.fifos) - 1
BcastRecv ==
    /\ kind = "broadcast" /\ pc = "select"
    /\ InputReady
    /\ dataIn' = MkData(nextIn)
    /\ nextIn' = nextIn + 1
    /\ idx' = NumWorkers - 1
    /\ pc' = "fanout"
    /\ UNCHANGED <<envVars, ctxDone, inClosed, dynVars, fifoVars, outBag, errBag,
                   marked>>

\* bcast.go:54-57, the input feed is closed: break loop
BcastInputClosed ==
    /\ kind = "broadcast" /\ pc = "select"
    /\ InputClosed
    /\ pc' = "close"
    /\ idx' = 0
    /\ UNCHANGED <<envVars, ctxDone, nextIn, inClosed, dataIn, dynVars, fifoVars,
                   outBag, errBag, marked>>

\* bcast.go:52-53, case <-ctx.Done(): break loop
BcastSelectCancel ==
    /\ kind = "broadcast" /\ pc = "select"
    /\ ctxDone
    /\ pc' = "close"
    /\ idx' = 0
    /\ UNCHANGED <<envVars, ctxDone, nextIn, inClosed, dataIn, dynVars, fifoVars,
                   outBag, errBag, marked>>

\* bcast.go:63-66, the data for the i-th FIFO: a clone for every FIFO but the first
FanoutData_NoClone(d, i, h) == d

FanoutData_OriginalToLast(d, i, h) ==
    IF i # NumWorkers - 1 THEN Clone(d, h) ELSE d

FanoutData(d, i, h) ==
    IF i # 0 THEN Clone(d, h) ELSE d

\* bcast.go:59-66, one iteration's head: i >= 0, fifoData is prepared
BcastPrepare ==
    /\ kind = "broadcast" /\ pc = "fanout"
    /\ idx >= 0
    /\ fifoData' = FanoutData(dataIn, idx, heap)
    /\ heap' = IF idx # 0 THEN heap + 1 ELSE heap
    /\ pc' = "send"
    /\ UNCHANGED <<envVars, ctxDone, nextIn, inClosed, idx, dataIn, dynVars, wg,
                   rpc, rdata, inCh, delivered, outBag, errBag, marked>>

\* bcast.go:59, the fan-out loop ends (i < 0): back to the outer select
BcastFanoutEnd ==
    /\ kind = "broadcast" /\ pc = "fanout"
    /\ ~(idx >= 0)
    /\ dataIn' = NoData
    /\ idx' = 0
    /\ pc' = "select"
    /\ UNCHANGED <<envVars, ctxDone, nextIn, inClosed, dynVars, fifoVars, outBag,
                   errBag, marked>>

\* bcast.go:70, case inCh[i] <- fifoData: the feed is unbuffered, so the send
\* completes together with the receive of the i-th FIFO; then i--
BcastSend_SkipBusy ==
    /\ kind = "broadcast" /\ pc = "send"
    /\ inCh[idx] = "open"
    /\ IF rpc[idx] = "select"
         THEN /\ rdata' = [rdata EXCEPT ![idx] = fifoData]
              /\ delivered' = [delivered EXCEPT ![idx] = Append(@, fifoData)]
              /\ rpc' = [rpc EXCEPT ![idx] = "process"]
         ELSE UNCHANGED <<rdata, delivered, rpc>>
    /\ fifoData' = NoData
    /\ idx' = idx - 1
    /\ pc' = "fanout"
    /\ UNCHANGED <<envVars, ctxDone, nextIn, inClosed, dataIn, dynVars, wg, inCh,
                   heap, outBag, errBag, marked>>

BcastSend ==
    /\ kind = "broadcast" /\ pc = "send"
    /\ inCh[idx] = "open"
    /\ rpc[idx] = "select"
    /\ rdata' = [rdata EXCEPT ![idx] = fifoData]
    /\ delivered' = [delivered EXCEPT ![idx] = Append(@, fifoData)]
    /\ rpc' = [rpc EXCEPT ![idx] = "process"]
    /\ fifoData' = NoData
    /\ idx' = idx - 1
    /\ pc' = "fanout"
    /\ UNCHANGED <<envVars, ctxDone, nextIn, inClosed, dataIn, dynVars, wg, inCh,
                   heap, outBag, errBag, marked>>

\* bcast.go:68-69, case <-ctx.Done(): break loop, in the middle of the fan-out
BcastSendCancel_BreakSelect ==
    /\ kind = "broadcast" /\ pc = "send"
    /\ ctxDone
    /\ idx' = idx - 1
    /\ pc' = "fanout"
    /\ UNCHANGED <<envVars, ctxDone, nextIn, inClosed, dataIn, dynVars, fifoVars,
                   outBag, errBag, marked>>

BcastSendCancel ==
    /\ kind = "broadcast" /\ pc = "send"
    /\ ctxDone
    /\ pc' = "close"
    /\ idx' = 0
    /\ UNCHANGED <<envVars, ctxDone, nextIn, inClosed, dataIn, dynVars, fifoVars,
                   outBag, errBag, marked>>

\* bcast.go:78-80, for _, ch := range inCh { close(ch) }
BcastClose_NoAdvance ==
    /\ kind = "broadcast" /\ pc = "close"
    /\ idx < NumWorkers
    /\ inCh[idx] = "open"
    /\ inCh' = [inCh EXCEPT ![idx] = "closed"]
    /\ UNCHANGED <<envVars, ctxDone, nextIn, inClosed, pc, idx, dataIn, dynVars,
                   wg, rpc, rdata, fifoData, heap, delivered, outBag, errBag,
                   marked>>

BcastClose ==
    /\ kind = "broadcast" /\ pc = "close"
    /\ idx < NumWorkers
    /\ inCh[idx] = "open"
    /\ inCh' = [inCh EXCEPT ![idx] = "closed"]
    /\ idx' = idx + 1
    /\ UNCHANGED <<envVars, ctxDone, nextIn, inClosed, pc, dataIn, dynVars, wg,
                   rpc, rdata, fifoData, heap, delivered, outBag, errBag, marked>>

\* bcast.go:78,81, every feed is closed; Run goes to wg.Wait()
BcastClosed_SkipWait ==
    /\ kind = "broadcast" /\ pc = "close"
    /\ ~(idx < NumWorkers)
    /\ pc' = "done"
    /\ UNCHANGED <<envVars, ctxDone, nextIn, inClosed, idx, dataIn, dynVars,
                   fifoVars, outBag, errBag, marked>>

BcastClosed ==
    /\ kind = "broadcast" /\ pc = "close"
    /\ ~(idx < NumWorkers)
    /\ pc' = "wait"
    /\ UNCHANGED <<envVars, ctxDone, nextIn, inClosed, idx, dataIn, dynVars,
                   fifoVars, outBag, errBag, marked>>

BcastNext ==
    \/ BcastSpawn
    \/ BcastSpawned
    \/ BcastRecv
    \/ BcastInputClosed
    \/ BcastPrepare
    \/ BcastFanoutEnd
    \/ BcastSend
    \/ BcastClose
    \/ BcastClosed

BcastCancelNext ==
    \/ BcastSelectCancel
    \/ BcastSendCancel

\* ------------------------------------------------------------- construction
\* A caller invokes one of the constructors with arguments of its choice; no
\* Run is started.
InitCtor ==
    /\ kind \in Kinds
    /\ position \in Positions
    /\ args \in [task : Tasks, num : ArgRange, max : ArgRange, tasks : TaskLists]
    /\ stage = Unbuilt
    /\ ctxDone = FALSE
    /\ cancelSeen = FALSE
    /\ sent = 0
    /\ nextIn = 1
    /\ inClosed = FALSE
    /\ pc = "new"
    /\ idx = 0
    /\ dataIn = NoData
    /\ tokenPool = 0
    /\ upc = [k \in Items |-> "none"]
    /\ wg = 0
    /\ rpc = [w \in Workers |-> "none"]
    /\ rdata = [w \in Workers |-> NoData]
    /\ inCh = [w \in Workers |-> "nil"]
    /\ fifoData = NoData
    /\ heap = 0
    /\ delivered = [w \in Workers |-> <<>>]
    /\ outBag = EmptyBag
    /\ errBag = EmptyBag
    /\ marked = EmptyBag

\* pool.go:15-26, stage := FixedPool(task, num)
NewFixedPool ==
    /\ kind = "fixed" /\ pc = "new"
    /\ stage' = FixedPool(args.task, args.num)
    /\ pc' = "built"
    /\ UNCHANGED <<kind, position, args, cancelSeen, sent, ctxDone, nextIn,
                   inClosed, idx, dataIn, dynVars, fifoVars, outBag, errBag,
                   marked>>

\* pool.go:52-63, stage := DynamicPool(task, max)
NewDynamicPool ==
    /\ kind = "dynamic" /\ pc = "new"
    /\ stage' = DynamicPool(args.task, args.max)
    /\ tokenPool' = stage'.tokenPool.len
    /\ pc' = "built"
    /\ UNCHANGED <<kind, position, args, cancelSeen, sent, ctxDone, nextIn,
                   inClosed, idx, dataIn, upc, fifoVars, outBag, errBag, marked>>

\* bcast.go:14-25, stage := Broadcast(tasks...)
NewBroadcast ==
    /\ kind = "broadcast" /\ pc = "new"
    /\ stage' = Broadcast(args.tasks)
    /\ pc' = "built"
    /\ UNCHANGED <<kind, position, args, cancelSeen, sent, ctxDone, nextIn,
                   inClosed, idx, dataIn, dynVars, fifoVars, outBag, errBag,
                   marked>>

NextCtor == NewFixedPool \/ NewDynamicPool \/ NewBroadcast

SpecCtor == InitCtor /\ [][NextCtor]_vars

\* ------------------------------------------------------------- specifications
EnvNext == CloseInput

InitDyn   == Init /\ kind = "dynamic"
InitFixed == Init /\ kind = "fixed"
InitBcast == Init /\ kind = "broadcast"

NextDyn   == DynNext \/ DynCancelNext \/ EnvNext \/ Cancel
NextFixed == FixedNext \/ FifoNext \/ FifoCancelNext \/ EnvNext \/ Cancel
NextBcast == BcastNext \/ BcastCancelNext \/ FifoNext \/ FifoCancelNext
                \/ EnvNext \/ Cancel

\* without cancellation
NextRun == DynNext \/ FixedNext \/ BcastNext \/ FifoNext \/ EnvNext
Next    == NextRun \/ DynCancelNext \/ BcastCancelNext \/ FifoCancelNext \/ Cancel

\* Steps of the goroutines of Run that need no partner outside Run: the Go
\* scheduler eventually runs a goroutine that can take a step.
ProgStep ==
    \/ DynNext \/ DynCancelNext
    \/ FixedNext
    \/ BcastNext \/ BcastCancelNext
    \/ FifoNext \/ FifoCancelNext

\* Writes to the output feed need a consumer that reads it.
OutputStep ==
    \/ \E k \in Items : UnitSendOutput(k)
    \/ \E w \in Workers : FifoSendOutput(w)

\* Every step of Run but a write to the output feed.
InternalStep == ProgStep /\ ~OutputStep

SpecDyn   == InitDyn /\ [][NextDyn]_vars
SpecFixed == InitFixed /\ [][NextFixed]_vars
SpecBcast == InitBcast /\ [][NextBcast]_vars
Spec      == Init /\ [][Next]_vars

\* Cancellation may strike at any time; nobody is bound to read the output
\* feed; every goroutine that can take a step on its own eventually does.
FairSpec  == Init /\ [][Next]_vars /\ WF_vars(InternalStep)

\* No cancellation; the output feed is always eventually read.
CloseSpec == Init /\ [][NextRun]_vars /\ WF_vars(ProgStep)

\* ------------------------------------------------------- dynamic pool claims
\* goroutines launched by Run that have not yet returned their token
UnitsHolding ==
    {k \in Items : upc[k] \in {"process", "report", "mark", "send", "release"}}

\* the accept loop of dynamicPool.Run is running (pool.go:68-106)
InAcceptLoop == pc \in {"select", "acquire", "launch"}

\* items taken from the input feed whose handling has not finished
InHand ==
    Cardinality(UnitsHolding) + (IF pc \in {"acquire", "launch"} THEN 1 ELSE 0)

\* C1: at any time at most max launched units have not yet returned their
\* permit.
C1_InFlightAtMostMax ==
    kind = "dynamic" => Cardinality(UnitsHolding) <= MaxTokens

\* C1 witness: max units are running while the loop holds a further item and
\* waits for a permit.
C1_Witness ==
    /\ kind = "dynamic"
    /\ Cardinality(UnitsHolding) = MaxTokens
    /\ pc = "acquire"
    /\ tokenPool = 0

\* C2 as stated: when Run has returned the pool holds max permits again.
C2_PoolRestored ==
    (kind = "dynamic" /\ pc = "done") => tokenPool = MaxTokens

\* C2 amended: when Run has returned, its drain loop has taken all max permits
\* out of the pool and none is put back: the pool is empty and no unit holds
\* a permit.
C2_PoolDrained ==
    (kind = "dynamic" /\ pc = "done") =>
        /\ tokenPool = 0
        /\ idx = MaxTokens
        /\ UnitsHolding = {}

\* C2 witness: Run has returned after units ran and gave their permits back.
C2_Witness ==
    /\ kind = "dynamic" /\ pc = "done"
    /\ tokenPool = 0
    /\ Cardinality({k \in Items : upc[k] = "exit"}) >= MaxTokens

\* C3: Run has returned only if every unit it launched has finished its work
\* and returned its permit.
C3_NoUnitOutlivesRun ==
    (kind = "dynamic" /\ pc = "done") =>
        \A k \in Items : upc[k] \in {"none", "exit"}

\* C3 witness: Run has returned after cancellation struck while it waited for
\* a permit (the held item is abandoned) with units launched before.
C3_Witness ==
    /\ kind = "dynamic" /\ pc = "done"
    /\ ctxDone
    /\ dataIn # NoData
    /\ Cardinality({k \in Items : upc[k] = "exit"}) = MaxTokens

\* C4: while the accept loop runs, permits in the pool + permits held by
\* running units + the permit the loop holds between acquisition and launch
\* is max; a unit about to return its permit never finds the pool full; the
\* pool never exceeds its capacity.
C4_PermitConservation ==
    kind = "dynamic" =>
        /\ InAcceptLoop =>
             tokenPool + Cardinality(UnitsHolding)
                 + (IF pc = "launch" THEN 1 ELSE 0) = MaxTokens
        /\ \A k \in Items : upc[k] = "release" => tokenPool < MaxTokens
        /\ tokenPool \in 0..MaxTokens

\* C4 witness: a unit whose transform failed is about to return its permit
\* while another permit is held by the loop and the pool is empty.
C4_Witness ==
    /\ kind = "dynamic" /\ pc = "launch"
    /\ tokenPool = 0
    /\ \E k \in Items : upc[k] = "release" /\ BagCardinality(errBag) > 0

\* C5 as stated: items taken from the input feed and not yet finished never
\* exceed max.
C5_InHandAtMostMax ==
    kind = "dynamic" => InHand <= MaxTokens

\* C5 amended: the loop takes an item before it asks for a permit, so with all
\* max permits checked out it holds one further item and then stalls; items
\* taken and not yet finished never exceed max + 1, at most max of them being
\* executed by units.
C5_InHandAtMostMaxPlusOne ==
    kind = "dynamic" =>
        /\ InHand <= MaxTokens + 1
        /\ Cardinality(UnitsHolding) <= MaxTokens
        /\ (pc = "acquire" /\ tokenPool = 0 /\ ~ctxDone) => ~ENABLED DynAcquire

\* C5 witness: max units run and the loop holds item max + 1, stalled.
C5_Witness ==
    /\ kind = "dynamic"
    /\ InHand = MaxTokens + 1
    /\ pc = "acquire"
    /\ InputReady

\* C6 as stated: once cancellation has been signaled the accept loop takes no
\* further item, acquires no further permit and launches no further unit.
C6_NothingAfterSignal ==
    [][(kind = "dynamic" /\ ctxDone) =>
          /\ nextIn' = nextIn
          /\ ~(pc = "acquire" /\ pc' = "launch")
          /\ \A k \in Items : upc[k] = "none" => upc'[k] = "none"]_vars

\* C6 amended: once the accept loop has observed cancellation (one of its
\* selects took the ctx.Done case) it has left the loop: from then on it takes
\* no further item and launches no further unit, and the only permits it takes
\* are those of the drain.  Between the signal and its observation a select
\* may still take a ready item or permit, and an acquired permit is followed
\* by the launch.
C6_NothingAfterObserved ==
    [][(kind = "dynamic" /\ cancelSeen') =>
          /\ pc' \in {"drain", "done"}
          /\ nextIn' = nextIn
          /\ \A k \in Items : upc[k] = "none" => upc'[k] = "none"]_vars

\* C6 witness: cancellation has been observed and the loop has stopped although
\* an input item and a permit are available.
C6_Witness ==
    /\ kind = "dynamic" /\ cancelSeen
    /\ pc = "drain" /\ idx = 0
    /\ InputReady
    /\ tokenPool > 0

\* ------------------------------------------------------------- all stages
\* Run has returned and no goroutine it started is live.
ReturnedClean ==
    /\ pc = "done"
    /\ \A k \in Items : upc[k] \in {"none", "exit"}
    /\ \A w \in Workers : rpc[w] \in {"none", "exited"}

\* C7: under weak fairness of Run's own steps, once cancellation is signaled
\* Run eventually returns with no unit or replica left, even if the output
\* feed is never read and the input feed never written again or closed.
C7_CancelLeadsToReturn ==
    ctxDone ~> ReturnedClean

\* C7 witness: Run returned after cancellation reached it in the permit wait
\* while max units were blocked on the output feed, which nobody read.
C7_Witness ==
    /\ kind = "dynamic" /\ pc = "done"
    /\ cancelSeen /\ dataIn # NoData
    /\ ~inClosed
    /\ Cardinality({k \in Items : upc[k] = "exit"}) = MaxTokens
    /\ outBag = EmptyBag /\ errBag = EmptyBag /\ marked = EmptyBag

\* C8: without cancellation and with the output feed always eventually read,
\* once the input feed is closed Run eventually returns, no unit or replica
\* is left, and every item queued on the input feed has been taken.
C8_CloseLeadsToReturn ==
    inClosed ~> (ReturnedClean /\ nextIn = sent + 1)

\* C8 witness: the input feed was closed after ItemLimit items and Run has
\* returned having taken them all.
C8_Witness ==
    /\ pc = "done" /\ ~ctxDone /\ inClosed
    /\ sent = ItemLimit /\ nextIn = sent + 1
    /\ kind = "broadcast"

\* ------------------------------------------------------- broadcast claims
\* the deliveries made so far: <<branch, position in the branch's feed>>
Deliveries ==
    {x \in Workers \X (1..FifoItems) : x[2] <= Len(delivered[x[1]])}

\* the fan-out loop of broadcast.Run has been left
FanoutOver == pc \in {"close", "wait", "done"}

\* C9: branch 0 receives the original of an item and every other branch a
\* clone; no object is delivered twice, to the same or to another branch; and
\* when the fan-out loop ends by input closure, without cancellation, every
\* item of the input feed has been delivered exactly once to each branch.
C9_EveryItemToEveryBranch ==
    kind = "broadcast" =>
        /\ \A w \in Workers : \A j \in 1..Len(delivered[w]) :
             (delivered[w][j].ref = 0) <=> (w = 0)
        /\ \A v, w \in Workers :
             \A i \in 1..Len(delivered[v]) : \A j \in 1..Len(delivered[w]) :
                (v # w \/ i # j) => delivered[v][i] # delivered[w][j]
        /\ (FanoutOver /\ ~ctxDone) =>
             \A w \in Workers :
                /\ Len(delivered[w]) = sent
                /\ \A k \in 1..sent :
                     Cardinality({j \in 1..Len(delivered[w]) :
                                     delivered[w][j].item = k}) = 1

\* C9 witness: the run ended by input closure and every branch received all
\* FifoItems items.
C9_Witness ==
    /\ kind = "broadcast" /\ pc = "done" /\ ~ctxDone
    /\ sent = FifoItems
    /\ \A w \in Workers : Len(delivered[w]) = FifoItems

\* C10: once the fan-out loop is over and the closing loop has ended, every
\* private feed is closed; Run has returned only if every replica's Run has
\* returned and its goroutine has ended; and after Run has returned nothing is
\* written to the output feed.
C10_ShutdownJoinsReplicas ==
    /\ [](kind = "broadcast" =>
            /\ pc \in {"wait", "done"} => \A w \in Workers : inCh[w] = "closed"
            /\ pc = "done" => wg = 0 /\ \A w \in Workers : rpc[w] = "exited")
    /\ [][(kind = "broadcast" /\ pc = "done") =>
            /\ outBag' = outBag
            /\ rpc' = rpc]_vars

\* C10 witness: Run has returned after cancellation struck in the middle of a
\* fan-out (the last branch has received an item that branch 0 has not), and
\* a replica had written to the output feed.
C10_Witness ==
    /\ kind = "broadcast" /\ pc = "done" /\ ctxDone
    /\ Len(delivered[NumWorkers - 1]) > Len(delivered[0])
    /\ outBag # EmptyBag

\* branch w has received a copy of item k
Received(w, k) ==
    \E j \in 1..Len(delivered[w]) : delivered[w][j].item = k

\* the fan-out loop was left while a delivery was pending (bcast.go:68-69):
\* the object prepared for the branch is still in Run's hands
AbortedInFanout == FanoutOver /\ fifoData # NoData

\* C15: broadcast.  The wait for a delivery is left only by the delivery or
\* by aborting the whole loop.  After an abort in the middle of a fan-out
\* cancellation has been signaled, the pending object is never delivered, the
\* item has reached only the branches served before (those above the branch
\* waited for) and in particular not branch 0, no further input item has been
\* read, and Run is in its shutdown (closing, joining, returned).
C15_CancelAbortsFanout ==
    kind = "broadcast" =>
        /\ pc \in {"spawn", "select", "fanout"} => fifoData = NoData
        /\ AbortedInFanout =>
             /\ ctxDone
             /\ fifoData.item = dataIn.item
             /\ dataIn.item = nextIn - 1
             /\ \A w \in Workers : \A j \in 1..Len(delivered[w]) :
                  delivered[w][j] # fifoData
             /\ ~Received(0, dataIn.item)
             /\ \A v, w \in Workers :
                  (v < w /\ Received(v, dataIn.item)) => Received(w, dataIn.item)
             /\ (fifoData.ref = 0) <=>
                  \A w \in Workers \ {0} : Received(w, dataIn.item)
             /\ \A w \in Workers : Len(delivered[w]) <= nextIn - 1

\* C15 witness: Run has returned after an abort in the middle of a fan-out:
\* the last branch has received the item, branch 0 has not.
C15_Witness ==
    /\ kind = "broadcast" /\ pc = "done"
    /\ AbortedInFanout
    /\ Received(NumWorkers - 1, dataIn.item)
    /\ ~Received(0, dataIn.item)
    /\ InputReady

\* C17: broadcast.  The j-th object a branch receives is a copy of the j-th
\* item read from the input feed; at the outer select, where the next item is
\* read, every branch has received every item read so far; during a fan-out
\* the branches above i have the current item and the others all items but
\* it; and while the branch to be served is busy Run can neither deliver nor
\* read the next item.
C17_OrderAndLockStep ==
    kind = "broadcast" =>
        /\ \A w \in Workers : \A j \in 1..Len(delivered[w]) :
             delivered[w][j].item = j
        /\ pc = "select" => \A w \in Workers : Len(delivered[w]) = nextIn - 1
        /\ pc \in {"fanout", "send"} =>
             \A w \in Workers :
                Len(delivered[w]) = IF w > idx THEN nextIn - 1 ELSE nextIn - 2
        /\ (pc = "send" /\ rpc[idx] # "select") =>
             ~ENABLED BcastSend /\ ~ENABLED BcastRecv

\* C17 witness: Run waits to deliver the second item to branch 0, which is
\* still busy with the first one, while the last branch has got the second.
C17_Witness ==
    /\ kind = "broadcast" /\ pc = "send" /\ idx = 0
    /\ rpc[0] \in {"process", "send"}
    /\ dataIn.item = 2
    /\ Len(delivered[NumWorkers - 1]) = 2

\* C18: broadcast.  For every item the branches are served from the highest
\* index down to 0: during a fan-out exactly the branches above i have the
\* item.  While a clone is still to be taken (i > 0) the original object has
\* been handed to no branch; and wherever a branch holds the original of an
\* item, that branch is branch 0 and every other branch has already received
\* its clone of the item.
C18_CloneBeforeShare ==
    kind = "broadcast" =>
        /\ pc \in {"fanout", "send"} =>
             \A w \in Workers : Received(w, dataIn.item) <=> (w > idx)
        /\ (pc \in {"fanout", "send"} /\ idx > 0) =>
             \A w \in Workers : \A j \in 1..Len(delivered[w]) :
                delivered[w][j] # dataIn
        /\ \A w \in Workers : \A j \in 1..Len(delivered[w]) :
             delivered[w][j].ref = 0 =>
                /\ w = 0
                /\ \A v \in Workers \ {w} :
                     /\ Len(delivered[v]) >= j
                     /\ delivered[v][j].item = delivered[w][j].item
                     /\ delivered[v][j].ref # 0

\* C18 witness: the original is about to be handed to branch 0 after every
\* other branch has received a clone of the item.
C18_Witness ==
    /\ kind = "broadcast" /\ pc = "send" /\ idx = 0
    /\ fifoData = dataIn
    /\ heap >= NumWorkers - 1
    /\ \A w \in Workers \ {0} : Received(w, dataIn.item)

\* C20: broadcast.  A private feed is closed only after the fan-out loop has
\* been left; the feed a delivery is attempted on is open; the closing loop
\* closes the feeds one after the other, each feed it comes to being still
\* open (no feed is closed twice); and once the closing loop is over every
\* feed is closed.
C20_PrivateFeedsClosedOnce ==
    kind = "broadcast" =>
        /\ \A w \in Workers : inCh[w] = "closed" => FanoutOver
        /\ pc \in {"select", "fanout", "send"} =>
             \A w \in Workers : inCh[w] = "open"
        /\ pc = "close" =>
             \A w \in Workers : (inCh[w] = "closed") <=> (w < idx)
        /\ pc \in {"wait", "done"} => \A w \in Workers : inCh[w] = "closed"

\* C20 witness: cancellation struck in the middle of a fan-out; the closing
\* loop has closed the first feed and comes to the next one, which is open.
C20_Witness ==
    /\ kind = "broadcast" /\ pc = "close" /\ idx = 1
    /\ AbortedInFanout
    /\ inCh[0] = "closed" /\ inCh[1] = "open"

\* ------------------------------------------- dynamic pool claims, per item
\* what the handling of item k has left in the error sink, on the output feed
\* and on the item itself
ErrorsOf(k) == CopiesIn(StageError(position, TaskError(MkData(k))), errBag)

OutputsOf(k) == CopiesIn(TaskOut(MkData(k)), outBag)

MarksOf(k) == CopiesIn(k, marked)

\* the unit of item k has left its transform and its reporting behind
UnitFinished(k) == upc[k] \in {"release", "exit"}

\* C13: dynamic pool.  A failed transform leaves exactly one error, annotated
\* with the stage position, in the error sink, nothing on the output feed and
\* no mark on the item.  The accept loop is left only by cancellation or by
\* closure of the input feed, never by a failure; so without cancellation,
\* when Run has returned every item of the input feed has been handled, the
\* failures of other items notwithstanding.
C13_FailureIsLocal ==
    kind = "dynamic" =>
        /\ \A e \in BagToSet(errBag) :
             e.stage = position /\ e.cause.failed \in Items
        /\ \A k \in Items :
             /\ ErrorsOf(k) <= 1
             /\ upc[k] \in {"none", "process", "report"} => ErrorsOf(k) = 0
             /\ ErrorsOf(k) = 1 =>
                  UnitFinished(k) /\ OutputsOf(k) = 0 /\ MarksOf(k) = 0
        /\ BagCardinality(errBag) = Cardinality({k \in Items : ErrorsOf(k) = 1})
        /\ pc \in {"drain", "done"} =>
             cancelSeen \/ (inClosed /\ nextIn = sent + 1)
        /\ (pc = "done" /\ ~ctxDone) =>
             \A k \in 1..sent : ErrorsOf(k) + OutputsOf(k) + MarksOf(k) = 1

\* C13 witness: the transform failed on the first item; Run went on, handled
\* all NumItems items and returned, the other items having been written out.
C13_Witness ==
    /\ kind = "dynamic" /\ pc = "done" /\ ~ctxDone
    /\ sent = NumItems
    /\ ErrorsOf(1) = 1
    /\ \A k \in 2..NumItems : OutputsOf(k) = 1

\* C14: dynamic pool.  A unit whose transform produced nothing marks its item
\* processed, once, and writes nothing; a unit whose transform produced an
\* item writes it to the output feed, once, or drops it, which it does only
\* when cancellation has been signaled.  No item is both marked and written
\* out.  Hence without cancellation a finished unit has left exactly one
\* trace, and a run without failures and nil results has written exactly the
\* produced items, each once.
C14_SuccessPaths ==
    /\ [](kind = "dynamic" =>
            /\ \A k \in Items :
                 /\ MarksOf(k) <= 1 /\ OutputsOf(k) <= 1
                 /\ ErrorsOf(k) + OutputsOf(k) + MarksOf(k) <= 1
                 /\ upc[k] \in {"none", "process", "mark", "send"} =>
                      OutputsOf(k) = 0 /\ MarksOf(k) = 0
                 /\ (UnitFinished(k) /\ ~ctxDone) =>
                      ErrorsOf(k) + OutputsOf(k) + MarksOf(k) = 1
            /\ (pc = "done" /\ ~ctxDone /\ errBag = EmptyBag
                   /\ marked = EmptyBag) =>
                 outBag = SetToBag({TaskOut(MkData(k)) : k \in 1..sent}))
    /\ [][kind = "dynamic" =>
            \A k \in Items :
               /\ (upc[k] = "mark" /\ upc'[k] # "mark") =>
                    marked' = BagAdd(marked, k) /\ outBag' = outBag
               /\ (upc[k] = "send" /\ upc'[k] # "send") =>
                    /\ marked' = marked
                    /\ \/ outBag' = BagAdd(outBag, TaskOut(MkData(k)))
                       \/ ctxDone /\ outBag' = outBag]_vars

\* C14 witness: the doubling scenario; items 1..4 were fed, the feed closed,
\* no cancellation: Run has returned and the output feed got {2, 4, 6, 8}.
C14_Witness ==
    /\ kind = "dynamic" /\ pc = "done" /\ ~ctxDone
    /\ sent = 4
    /\ outBag = SetToBag({2, 4, 6, 8})
    /\ errBag = EmptyBag /\ marked = EmptyBag

\* C19: dynamic pool.  An item that Run still holds after it has left the
\* accept loop is the item abandoned in the permit wait: cancellation was
\* observed, it is the last item taken from the input feed, no unit was ever
\* launched for it (the transform is not invoked), and it has left no output,
\* no error and no mark.  From the permit wait Run went straight to the
\* drain: no item is held at the outer select.
C19_AbandonedItemUntouched ==
    kind = "dynamic" =>
        /\ pc = "select" => dataIn = NoData
        /\ (pc \in {"drain", "done"} /\ dataIn # NoData) =>
             /\ cancelSeen /\ ctxDone
             /\ dataIn.item = nextIn - 1
             /\ upc[dataIn.item] = "none"
             /\ OutputsOf(dataIn.item) = 0
             /\ ErrorsOf(dataIn.item) = 0
             /\ MarksOf(dataIn.item) = 0

\* C19 witness: Run has returned holding the abandoned item while the items
\* taken before it were handled (one written out, one marked processed).
C19_Witness ==
    /\ kind = "dynamic" /\ pc = "done"
    /\ dataIn # NoData /\ upc[dataIn.item] = "none"
    /\ outBag # EmptyBag /\ marked # EmptyBag

\* ------------------------------------------------------- construction claims
\* C16: a constructor called with num <= 0, max <= 0 or no transform returns
\* the nil Stage; otherwise FixedPool returns a fixedPool of exactly num
\* replicas of the task, DynamicPool a dynamicPool whose token pool has
\* capacity max and holds max tokens, and Broadcast a broadcast with one
\* replica per transform, the i-th replica wrapping the i-th transform.
C16_Construction ==
    pc = "built" =>
        /\ kind = "fixed" =>
             IF args.num <= 0
             THEN stage = NilStage
             ELSE /\ stage.type = "fixedPool"
                  /\ DOMAIN stage.fifos = 0..(args.num - 1)
                  /\ Cardinality(DOMAIN stage.fifos) = args.num
                  /\ \A i \in DOMAIN stage.fifos :
                       stage.fifos[i] = FIFO(args.task)
        /\ kind = "dynamic" =>
             IF args.max <= 0
             THEN stage = NilStage
             ELSE /\ stage.type = "dynamicPool"
                  /\ stage.task = args.task
                  /\ stage.tokenPool.cap = args.max
                  /\ stage.tokenPool.len = args.max
                  /\ tokenPool = args.max
        /\ kind = "broadcast" =>
             IF Len(args.tasks) = 0
             THEN stage = NilStage
             ELSE /\ stage.type = "broadcast"
                  /\ DOMAIN stage.fifos = 0..(Len(args.tasks) - 1)
                  /\ \A i \in DOMAIN stage.fifos :
                       stage.fifos[i] = FIFO(args.tasks[i + 1])

\* C16 witness: FixedPool was called with num = 0 and returned the nil Stage.
C16_Witness ==
    /\ pc = "built" /\ kind = "fixed"
    /\ args.num = 0
    /\ stage = NilStage

\* ------------------------------------------------------- fixed pool claims
\* replicas that hold an item: the transform runs or its result awaits writing
FifoBusy == {w \in Workers : rpc[w] \in {"process", "send"}}

\* the items the replicas have taken from the input feed
Consumed == {delivered[x[1]][x[2]].item : x \in Deliveries}

\* replicas whose Run has been started and has not returned to its goroutine's
\* wg.Done()
FifoLive == {w \in Workers : rpc[w] \notin {"none", "exited"}}

\* C11: fixed pool.  Every item taken from the shared input feed is with
\* exactly one replica (none twice, none skipped).  Without cancellation the
\* items written to the output feed are the consumed items less those whose
\* transform failed, those for which nothing was produced and those still
\* with a replica; and when Run has returned all K items have been consumed
\* and the output count is K less the failures and the nil results.
C11_EachItemToOneReplica ==
    kind = "fixed" =>
        /\ \A x, y \in Deliveries :
             x # y => delivered[x[1]][x[2]].item # delivered[y[1]][y[2]].item
        /\ Consumed = 1..(nextIn - 1)
        /\ ~ctxDone =>
             BagCardinality(outBag) =
                 (nextIn - 1) - BagCardinality(errBag) - BagCardinality(marked)
                     - Cardinality(FifoBusy)
        /\ (pc = "done" /\ ~ctxDone) =>
             /\ nextIn = sent + 1
             /\ FifoBusy = {}
             /\ \A k \in 1..sent :
                  CopiesIn(TaskOut(MkData(k)), outBag)
                    + CopiesIn(StageError(position, TaskError(MkData(k))), errBag)
                    + CopiesIn(k, marked) = 1

\* C11 witness: Run has returned without cancellation, all FifoItems items
\* were consumed, by more than one replica, and some were written out.
C11_Witness ==
    /\ kind = "fixed" /\ pc = "done" /\ ~ctxDone
    /\ sent = FifoItems
    /\ \E v, w \in Workers :
         v # w /\ Len(delivered[v]) > 0 /\ Len(delivered[w]) > 0
    /\ outBag # EmptyBag

\* C12: fixed pool.  Once the spawn loop is over all n replicas have been
\* started; the WaitGroup counts the replicas that have not finished; Run has
\* returned only if every replica has returned; while a replica is still
\* running Run is not done, whatever the other replicas did.
C12_JoinsAllReplicas ==
    kind = "fixed" =>
        /\ wg = Cardinality(FifoLive)
        /\ pc = "spawn" => \A w \in Workers : (rpc[w] # "none") <=> (w < idx)
        /\ pc \in {"wait", "done"} => \A w \in Workers : rpc[w] # "none"
        /\ pc = "done" => \A w \in Workers : rpc[w] = "exited"
        /\ FifoLive # {} => pc # "done"

\* C12 witness: one replica has returned early (it found the input feed
\* closed) while another one still runs the transform, and Run waits.
C12_Witness ==
    /\ kind = "fixed" /\ pc = "wait" /\ ~ctxDone
    /\ \E v, w \in Workers : rpc[v] = "exited" /\ rpc[w] = "process"
    /\ wg = Cardinality(FifoLive) /\ wg > 0

====
